---- MODULE Spec2Model ----
(***************************************************************************)
(* Shape-level model of muscall/modules/audio_backbones.py.                *)
(*                                                                         *)
(* A tensor is modelled by its shape (a sequence of positive integers); a  *)
(* module is modelled by the record of its constructor arguments, and a    *)
(* Sequential by the sequence of its layers.  Applying a layer to a shape  *)
(* gives the shape the framework returns, or ShapeError where it raises.   *)
(***************************************************************************)
EXTENDS Integers, Sequences, FiniteSets, TLC

(***************************************************************************)
(* Bounds of the model                                                     *)
(***************************************************************************)
MaxBatch == 2
MaxPlanes == 2
MaxStride == 3
MaxSide == 4

(***************************************************************************)
(* Values of the framework                                                 *)
(***************************************************************************)
ShapeError == <<-1>>
NoKey == -1

get(value, default) == IF value = NoKey THEN default ELSE value

Min(a, b) == IF a <= b THEN a ELSE b

RECURSIVE Prod(_)
Prod(s) == IF s = <<>> THEN 1 ELSE Head(s) * Prod(Tail(s))

(***************************************************************************)
(* Layer constructors: the record of the arguments the code passes         *)
(***************************************************************************)
Conv2d(in_channels, out_channels, kernel_size, stride, padding) ==
    [type |-> "Conv2d", in_channels |-> in_channels, out_channels |-> out_channels,
     kernel_size |-> kernel_size, stride |-> stride, padding |-> padding]
BatchNorm2d(num_features) == [type |-> "BatchNorm2d", num_features |-> num_features]
ReLU == [type |-> "ReLU"]
Identity == [type |-> "Identity"]
Dropout == [type |-> "Dropout"]
AvgPool2d(kernel_size) == [type |-> "AvgPool2d", kernel_size |-> kernel_size]
AdaptiveAvgPool2d == [type |-> "AdaptiveAvgPool2d"]
Linear(in_features, out_features) ==
    [type |-> "Linear", in_features |-> in_features, out_features |-> out_features]
MelSpectrogram(sample_rate, n_fft, f_min, f_max, n_mels, power, normalized) ==
    [type |-> "MelSpectrogram", sample_rate |-> sample_rate, n_fft |-> n_fft,
     f_min |-> f_min, f_max |-> f_max, n_mels |-> n_mels, power |-> power,
     normalized |-> normalized]
AmplitudeToDB(top_db) == [type |-> "AmplitudeToDB", top_db |-> top_db]

(***************************************************************************)
(* Shape functions of the tensor operations the code uses                  *)
(***************************************************************************)
unsqueeze(x, dim) == SubSeq(x, 1, dim) \o <<1>> \o SubSeq(x, dim + 1, Len(x))

squeeze(x) == SelectSeq(x, LAMBDA d : d # 1)

flatten(x, start_dim) ==
    SubSeq(x, 1, start_dim) \o <<Prod(SubSeq(x, start_dim + 1, Len(x)))>>

\* x.reshape(x.size(0), -1)
reshape2(x) == <<x[1], Prod(Tail(x))>>

\* x.reshape(x.size(0), -1, last): the inferred axis must divide evenly
reshape3(x, last) ==
    IF Prod(Tail(x)) % last # 0 THEN ShapeError
    ELSE <<x[1], Prod(Tail(x)) \div last, last>>

mean(x, dim) == SubSeq(x, 1, dim) \o SubSeq(x, dim + 2, Len(x))

\* whether `a` can be added in place into a tensor of shape `into`
Broadcastable(a, into) ==
    /\ Len(a) <= Len(into)
    /\ \A i \in 1..Len(a) :
          LET d == a[i]
              e == into[Len(into) - Len(a) + i]
          IN  d = e \/ d = 1

ConvOut(size, kernel_size, stride, padding) ==
    (size + 2 * padding - kernel_size) \div stride + 1

ApplyConv2d(l, x) ==
    IF \/ Len(x) # 4
       \/ x[2] # l.in_channels
       \/ x[3] + 2 * l.padding < l.kernel_size
       \/ x[4] + 2 * l.padding < l.kernel_size
    THEN ShapeError
    ELSE <<x[1], l.out_channels,
           ConvOut(x[3], l.kernel_size, l.stride, l.padding),
           ConvOut(x[4], l.kernel_size, l.stride, l.padding)>>

ApplyAvgPool2d(l, x) ==
    IF Len(x) # 4 \/ x[3] < l.kernel_size \/ x[4] < l.kernel_size
    THEN ShapeError
    ELSE <<x[1], x[2], ConvOut(x[3], l.kernel_size, l.kernel_size, 0),
           ConvOut(x[4], l.kernel_size, l.kernel_size, 0)>>

ApplyLinear(l, x) ==
    IF Len(x) = 0 \/ x[Len(x)] # l.in_features THEN ShapeError
    ELSE SubSeq(x, 1, Len(x) - 1) \o <<l.out_features>>

\* spectrogram of a batch of waveforms <<B, L>>: hop_length = n_fft // 2,
\* centred frames with reflect padding of n_fft // 2 samples on each side
ApplyMelSpectrogram(l, x) ==
    IF Len(x) # 2 \/ x[2] <= l.n_fft \div 2 THEN ShapeError
    ELSE <<x[1], l.n_mels, x[2] \div (l.n_fft \div 2) + 1>>

(***************************************************************************)
(* Program constants                                                       *)
(***************************************************************************)
expansion == 4
heads == 8
layers == <<3, 4, 6, 3>>
max_len == 5000
AutoEncoderMels == 128
AutoEncoderFrames == 1836
EfficientNetStemChannels == 32
EfficientNetFeatures == 1280

(***************************************************************************)
(* Tensor operations of the forward methods, as entries of a forward list  *)
(***************************************************************************)
Unsqueeze(dim) == [type |-> "unsqueeze", dim |-> dim]
Squeeze == [type |-> "squeeze"]
Flatten(start_dim) == [type |-> "flatten", start_dim |-> start_dim]
Reshape2 == [type |-> "reshape2"]
Reshape3(last) == [type |-> "reshape3", last |-> last]
Mean(dim) == [type |-> "mean", dim |-> dim]
TypeCast == [type |-> "type"]
SequentialOf(ls) == [type |-> "Sequential", layers |-> ls]

(***************************************************************************)
(* class Bottleneck                                                        *)
(***************************************************************************)
\* a Bottleneck whose downsample branch is built for stride > 1 only
Bottleneck_stride_only(inplanes, planes, stride) ==
    [type |-> "Bottleneck",
     conv1 |-> Conv2d(inplanes, planes, 1, 1, 0),
     bn1 |-> BatchNorm2d(planes),
     conv2 |-> Conv2d(planes, planes, 3, 1, 1),
     bn2 |-> BatchNorm2d(planes),
     avgpool |-> IF stride > 1 THEN AvgPool2d(stride) ELSE Identity,
     conv3 |-> Conv2d(planes, planes * expansion, 1, 1, 0),
     bn3 |-> BatchNorm2d(planes * expansion),
     relu |-> ReLU,
     stride |-> stride,
     downsample |->
        IF stride > 1
        THEN <<AvgPool2d(stride),
               Conv2d(inplanes, planes * expansion, 1, 1, 0),
               BatchNorm2d(planes * expansion)>>
        ELSE <<>>]

Bottleneck(inplanes, planes, stride) ==
    [type |-> "Bottleneck",
     conv1 |-> Conv2d(inplanes, planes, 1, 1, 0),
     bn1 |-> BatchNorm2d(planes),
     conv2 |-> Conv2d(planes, planes, 3, 1, 1),
     bn2 |-> BatchNorm2d(planes),
     avgpool |-> IF stride > 1 THEN AvgPool2d(stride) ELSE Identity,
     conv3 |-> Conv2d(planes, planes * expansion, 1, 1, 0),
     bn3 |-> BatchNorm2d(planes * expansion),
     relu |-> ReLU,
     stride |-> stride,
     downsample |->
        IF stride > 1 \/ inplanes # planes * expansion
        THEN <<AvgPool2d(stride),
               Conv2d(inplanes, planes * expansion, 1, 1, 0),
               BatchNorm2d(planes * expansion)>>
        ELSE <<>>]

\* lines 113-116 of Bottleneck.forward, as the list of layers applied to x
Bottleneck_main(b) ==
    <<b.conv1, b.bn1, b.relu, b.conv2, b.bn2, b.relu, b.avgpool, b.conv3, b.bn3>>

\* out += identity: an in-place add, identity must broadcast into out
Bottleneck_add(out, identity) ==
    IF out = ShapeError \/ identity = ShapeError \/ ~Broadcastable(identity, out)
    THEN ShapeError
    ELSE out

(***************************************************************************)
(* class AttentionPool2d                                                   *)
(***************************************************************************)
AttentionPool2d(spacial_dim, embed_dim, num_heads, output_dim) ==
    [type |-> "AttentionPool2d",
     positional_embedding |-> <<spacial_dim, embed_dim>>,
     k_proj |-> Linear(embed_dim, embed_dim),
     q_proj |-> Linear(embed_dim, embed_dim),
     v_proj |-> Linear(embed_dim, embed_dim),
     c_proj |-> Linear(embed_dim, IF output_dim = NoKey \/ output_dim = 0
                                  THEN embed_dim ELSE output_dim),
     num_heads |-> num_heads]

\* shape of a + b for two shapes of equal rank
BroadcastShape(a, b) ==
    IF Len(a) # Len(b) \/ \E i \in 1..Len(a) : a[i] # b[i] /\ a[i] # 1 /\ b[i] # 1
    THEN ShapeError
    ELSE [i \in 1..Len(a) |-> IF a[i] = 1 THEN b[i] ELSE a[i]]

AttentionPool2d_forward(a, x) ==
    IF Len(x) # 4 THEN ShapeError
    ELSE LET tokens == <<x[3] * x[4] + 1, x[1], x[2]>>
             pe == <<a.positional_embedding[1], 1, a.positional_embedding[2]>>
             summed == BroadcastShape(tokens, pe)
         IN  IF \/ summed = ShapeError
                \/ summed[3] # a.q_proj.in_features
                \/ summed[3] % a.num_heads # 0
             THEN ShapeError
             ELSE <<summed[2], a.c_proj.out_features>>

(***************************************************************************)
(* class PositionalEncoding                                                *)
(***************************************************************************)
PositionalEncoding(d_model) ==
    [type |-> "PositionalEncoding", pe |-> <<max_len, 1, d_model>>]

\* pe[:x.size(1), :].expand(x.size(1), x.size(0), -1).permute(1, 0, 2); x + pe
PositionalEncoding_forward(p, x) ==
    IF Len(x) # 3 THEN ShapeError
    ELSE LET sliced == <<Min(x[2], p.pe[1]), p.pe[2], p.pe[3]>>
         IN  IF sliced[1] # x[2] /\ sliced[1] # 1 THEN ShapeError
             ELSE BroadcastShape(x, <<x[1], x[2], sliced[3]>>)

(***************************************************************************)
(* Library modules used as a whole                                         *)
(***************************************************************************)
TransformerEncoder(d_model, nhead, num_layers) ==
    [type |-> "TransformerEncoder", d_model |-> d_model, nhead |-> nhead,
     num_layers |-> num_layers]

CeilHalf(n) == (n + 1) \div 2

\* efficientnet_b0 with features[0][0] and classifier replaced (lines 295-300)
EfficientNet(hidden_size) ==
    [type |-> "EfficientNet",
     features0 |-> Conv2d(1, EfficientNetStemChannels, 3, 2, 1),
     avgpool |-> AdaptiveAvgPool2d,
     classifier |-> <<Dropout, Linear(EfficientNetFeatures, hidden_size)>>]

\* the remaining feature stages: 32 -> 1280 channels, four more halvings
EfficientNet_stages(x) ==
    IF x = ShapeError \/ x[2] # EfficientNetStemChannels THEN ShapeError
    ELSE <<x[1], EfficientNetFeatures,
           CeilHalf(CeilHalf(CeilHalf(CeilHalf(x[3])))),
           CeilHalf(CeilHalf(CeilHalf(CeilHalf(x[4]))))>>

(***************************************************************************)
(* Applying a module or a tensor operation to a shape                      *)
(***************************************************************************)
RECURSIVE Apply(_, _)
RECURSIVE Sequential(_, _)

Apply(l, x) ==
    IF x = ShapeError THEN ShapeError
    ELSE CASE l.type = "Conv2d" -> ApplyConv2d(l, x)
           [] l.type = "BatchNorm2d" ->
                  IF Len(x) = 4 /\ x[2] = l.num_features THEN x ELSE ShapeError
           [] l.type = "AvgPool2d" -> ApplyAvgPool2d(l, x)
           [] l.type = "AdaptiveAvgPool2d" ->
                  IF Len(x) = 4 THEN <<x[1], x[2], 1, 1>> ELSE ShapeError
           [] l.type = "Linear" -> ApplyLinear(l, x)
           [] l.type = "MelSpectrogram" -> ApplyMelSpectrogram(l, x)
           [] l.type = "unsqueeze" -> unsqueeze(x, l.dim)
           [] l.type = "squeeze" -> squeeze(x)
           [] l.type = "flatten" -> flatten(x, l.start_dim)
           [] l.type = "reshape2" -> reshape2(x)
           [] l.type = "reshape3" -> reshape3(x, l.last)
           [] l.type = "mean" -> mean(x, l.dim)
           [] l.type = "Sequential" -> Sequential(l.layers, x)
           [] l.type = "Bottleneck" ->
                  Bottleneck_add(
                      Sequential(Bottleneck_main(l), x),
                      IF l.downsample # <<>> THEN Sequential(l.downsample, x) ELSE x)
           [] l.type = "AttentionPool2d" -> AttentionPool2d_forward(l, x)
           [] l.type = "PositionalEncoding" -> PositionalEncoding_forward(l, x)
           [] l.type = "TransformerEncoder" ->
                  IF Len(x) = 3 /\ x[3] = l.d_model THEN x ELSE ShapeError
           [] l.type = "EfficientNet" ->
                  Sequential(<<l.avgpool, Flatten(1)>> \o l.classifier,
                             EfficientNet_stages(Apply(l.features0, x)))
           [] l.type = "reparameterize" ->
                  LET mu == Apply(l.fc_mu, x)
                      logvar == Apply(l.fc_logvar, x)
                  IN  IF mu = ShapeError \/ logvar = ShapeError THEN ShapeError
                      ELSE BroadcastShape(mu, logvar)
           [] OTHER -> x

Sequential(ls, x) ==
    IF ls = <<>> THEN x
    ELSE Sequential(Tail(ls), Apply(Head(ls), x))

(***************************************************************************)
(* Inputs: the config objects and the waveform batches <<B, L>>            *)
(***************************************************************************)
Configs ==
    [sample_rate : {16000}, n_fft : {1024}, f_min : {0}, f_max : {8000},
     n_mels : {64, 128}, audio_len_seconds : {2, 4},
     conv_out_channels : {16, 64}, pooling : {"attention", "average", "none"},
     hidden_size : {256, 512}, output_size : {NoKey, 512},
     latent_dim : {NoKey}, num_layers : {NoKey}, num_heads : {NoKey},
     dim_feedforward : {NoKey}]

SampleCounts == {400, 32000, 64000, 939520, 5242368}

Waves == {<<b, n>> : b \in 1..MaxBatch, n \in SampleCounts}

Variants ==
    {"ModifiedResNet", "AudioCNN", "AudioEfficientNet", "AudioTransformer",
     "AudioAutoEncoder"}

VARIABLES
    config,     \* the config object the encoder is built from
    variant,    \* the encoder class
    wave,       \* the shape <<B, L>> of the batch given to forward
    pc,         \* "new", "make_layer", "init_pool", "forward", "done", "error"
    net,        \* the attributes of the module set so far
    ip,         \* position in the forward method
    x,          \* shape of the tensor forward holds
    trace,      \* the modules and operations forward has applied, in order
    bpc,        \* Bottleneck on its own: "off", "new", "main", "identity", "add", "done"
    bargs,      \* its constructor arguments
    block,      \* the constructed Bottleneck
    bx,         \* the shape of its input
    out,        \* the main path's tensor
    identity    \* the identity path's tensor

vars == <<config, variant, wave, pc, net, ip, x, trace,
          bpc, bargs, block, bx, out, identity>>
encoderVars == <<config, variant, wave, pc, net, ip, x, trace>>
bottleneckVars == <<bpc, bargs, block, bx, out, identity>>

(***************************************************************************)
(* class ModifiedResNet                                                    *)
(***************************************************************************)
\* __init__, lines 138-184: front end, stem and the construction counter
ModifiedResNet_init_stem(cfg) ==
    LET width == cfg.conv_out_channels
    IN  [pooling |-> cfg.pooling,
         spec |-> MelSpectrogram(cfg.sample_rate, cfg.n_fft, cfg.f_min, cfg.f_max,
                                 cfg.n_mels, 2, TRUE),
         amplitude_to_db |-> AmplitudeToDB(100),
         output_dim |-> cfg.hidden_size,
         conv1 |-> Conv2d(1, width \div 2, 3, 2, 1),
         bn1 |-> BatchNorm2d(width \div 2),
         conv2 |-> Conv2d(width \div 2, width \div 2, 3, 1, 1),
         bn2 |-> BatchNorm2d(width \div 2),
         conv3 |-> Conv2d(width \div 2, width, 3, 1, 1),
         bn3 |-> BatchNorm2d(width),
         avgpool |-> AvgPool2d(2),
         relu |-> ReLU,
         _inplanes |-> width,
         layer |-> <<>>]

\* _make_layer building the later blocks from the counter it was entered with
_make_layer_stale_inplanes(inplanes, planes, blocks, stride) ==
    [layer |-> [type |-> "Sequential",
                layers |-> <<Bottleneck(inplanes, planes, stride)>> \o
                           [i \in 1..(blocks - 1) |-> Bottleneck(inplanes, planes, 1)]],
     _inplanes |-> planes * expansion]

\* _make_layer: the blocks of one layer and the counter it leaves behind
_make_layer(inplanes, planes, blocks, stride) ==
    [layer |-> SequentialOf(
                   <<Bottleneck(inplanes, planes, stride)>> \o
                   [i \in 1..(blocks - 1) |->
                       Bottleneck(planes * expansion, planes, 1)]),
     _inplanes |-> planes * expansion]

\* the arguments of the i-th _make_layer call of __init__ (lines 185-188)
LayerPlanes(width, i) == width * (2 ^ (i - 1))
LayerStride(i) == IF i = 1 THEN 1 ELSE 2

\* __init__, lines 190-200: the pooling head
ModifiedResNet_init_pool(cfg, n) ==
    LET width == cfg.conv_out_channels
        embed_dim == width * 32
        f_out_dim == cfg.n_mels \div 32
        t_out_dim == ((cfg.audio_len_seconds * cfg.sample_rate)
                         \div (cfg.n_fft \div 2) + 1) \div 32
        fc_dim == f_out_dim * t_out_dim + 1
    IN  IF n.pooling = "attention"
        THEN [attnpool |-> AttentionPool2d(fc_dim, embed_dim, heads, cfg.hidden_size)] @@ n
        ELSE IF n.pooling = "average"
        THEN [final_avgpool |-> AdaptiveAvgPool2d,
              final_linear |-> Linear(512, 256)] @@ n
        ELSE n

ModifiedResNet_forward(n) ==
    <<n.spec, n.amplitude_to_db, Unsqueeze(1), TypeCast,
      SequentialOf(<<n.conv1, n.bn1, n.relu, n.conv2, n.bn2, n.relu,
                     n.conv3, n.bn3, n.relu, n.avgpool>>),
      n.layer[1], n.layer[2], n.layer[3], n.layer[4]>>
    \o (IF n.pooling = "attention" THEN <<n.attnpool>>
        ELSE IF n.pooling = "average"
        THEN <<n.final_avgpool, Squeeze, n.final_linear>>
        ELSE <<>>)

(***************************************************************************)
(* class AudioCNN                                                          *)
(***************************************************************************)
\* the front end built with another dB range than the other encoders
AudioCNN_setup_mel_spectrogram_top_db80(cfg) ==
    [spec |-> MelSpectrogram(cfg.sample_rate, cfg.n_fft, cfg.f_min, cfg.f_max,
                             cfg.n_mels, 2, TRUE),
     amplitude_to_db |-> AmplitudeToDB(80)]

AudioCNN_setup_mel_spectrogram(cfg) ==
    [spec |-> MelSpectrogram(cfg.sample_rate, cfg.n_fft, cfg.f_min, cfg.f_max,
                             cfg.n_mels, 2, TRUE),
     amplitude_to_db |-> AmplitudeToDB(100)]

conv_block(in_channels, out_channels, kernel_size, stride, padding) ==
    SequentialOf(<<Conv2d(in_channels, out_channels, kernel_size, stride, padding),
                   BatchNorm2d(out_channels), ReLU>>)

AudioCNN_init(cfg) ==
    [conv_layers |-> SequentialOf(<<conv_block(1, 64, 3, 1, 1),
                                    conv_block(64, 128, 3, 2, 1),
                                    conv_block(128, 256, 3, 2, 1),
                                    conv_block(256, 512, 3, 2, 1)>>),
     adaptive_pool |-> AdaptiveAvgPool2d,
     fc |-> Linear(512, cfg.hidden_size)]
    @@ AudioCNN_setup_mel_spectrogram(cfg)

AudioCNN_forward(n) ==
    <<n.spec, n.amplitude_to_db, Unsqueeze(1),
      n.conv_layers, n.adaptive_pool, Flatten(1), n.fc>>

(***************************************************************************)
(* class AudioEfficientNet                                                 *)
(***************************************************************************)
AudioEfficientNet_setup_mel_spectrogram(cfg) ==
    [spec |-> MelSpectrogram(cfg.sample_rate, cfg.n_fft, cfg.f_min, cfg.f_max,
                             cfg.n_mels, 2, TRUE),
     amplitude_to_db |-> AmplitudeToDB(100)]

AudioEfficientNet_init(cfg) ==
    [efficientnet |-> EfficientNet(cfg.hidden_size)]
    @@ AudioEfficientNet_setup_mel_spectrogram(cfg)

AudioEfficientNet_forward(n) ==
    <<n.spec, n.amplitude_to_db, Unsqueeze(1), n.efficientnet>>

(***************************************************************************)
(* class AudioTransformer                                                  *)
(***************************************************************************)
AudioTransformer_setup_mel_spectrogram(cfg) ==
    [spec |-> MelSpectrogram(cfg.sample_rate, cfg.n_fft, cfg.f_min, cfg.f_max,
                             cfg.n_mels, 2, TRUE),
     amplitude_to_db |-> AmplitudeToDB(100)]

AudioTransformer_init(cfg) ==
    LET d_model == get(cfg.hidden_size, 512)
        num_layers == get(cfg.num_layers, 6)
        num_heads == get(cfg.num_heads, 8)
        dim_feedforward == get(cfg.dim_feedforward, 2048)
        output_size == get(cfg.output_size, 256)
    IN  [d_model |-> d_model, num_layers |-> num_layers, num_heads |-> num_heads,
         dim_feedforward |-> dim_feedforward, output_size |-> output_size,
         positional_encoding |-> PositionalEncoding(d_model),
         transformer_encoder |-> TransformerEncoder(d_model, num_heads, num_layers),
         fc |-> Linear(d_model, output_size)]
        @@ AudioTransformer_setup_mel_spectrogram(cfg)

AudioTransformer_forward(n) ==
    <<n.spec, n.amplitude_to_db, Unsqueeze(1), Reshape3(n.d_model),
      n.positional_encoding, n.transformer_encoder, Mean(1), n.fc>>

(***************************************************************************)
(* class AudioAutoEncoder                                                  *)
(***************************************************************************)
AudioAutoEncoder_setup_mel_spectrogram(cfg) ==
    [spec |-> MelSpectrogram(cfg.sample_rate, cfg.n_fft, cfg.f_min, cfg.f_max,
                             cfg.n_mels, 2, TRUE),
     amplitude_to_db |-> AmplitudeToDB(100)]

AudioAutoEncoder_init(cfg) ==
    LET latent_dim == get(cfg.latent_dim, 256)
        output_size == get(cfg.output_size, 256)
    IN  [latent_dim |-> latent_dim, output_size |-> output_size,
         encoder_linear |->
             SequentialOf(<<Linear(AutoEncoderMels * AutoEncoderFrames, 512), ReLU,
                            Linear(512, latent_dim)>>),
         fc_mu |-> Linear(latent_dim, output_size),
         fc_logvar |-> Linear(latent_dim, output_size)]
        @@ AudioAutoEncoder_setup_mel_spectrogram(cfg)

AudioAutoEncoder_forward(n) ==
    <<n.spec, n.amplitude_to_db, Unsqueeze(1), Reshape2, n.encoder_linear,
      [type |-> "reparameterize", fc_mu |-> n.fc_mu, fc_logvar |-> n.fc_logvar]>>

(***************************************************************************)
(* The encoders: construction from a config, then one call of forward      *)
(***************************************************************************)
Init ==
    /\ config \in Configs
    /\ variant \in Variants
    /\ wave \in Waves
    /\ pc = "new"
    /\ net = <<>>
    /\ ip = 1
    /\ x = wave
    /\ trace = <<>>
    /\ bpc = "off"
    /\ bargs = <<>>
    /\ block = <<>>
    /\ bx = <<>>
    /\ out = <<>>
    /\ identity = <<>>

ModifiedResNetInitStem ==
    /\ variant = "ModifiedResNet" /\ pc = "new"
    /\ net' = ModifiedResNet_init_stem(config)
    /\ pc' = "make_layer"
    /\ UNCHANGED <<config, variant, wave, ip, x, trace, bottleneckVars>>

ModifiedResNetMakeLayer ==
    /\ variant = "ModifiedResNet" /\ pc = "make_layer"
    /\ LET i == Len(net.layer) + 1
           made == _make_layer(net._inplanes,
                               LayerPlanes(config.conv_out_channels, i),
                               layers[i], LayerStride(i))
       IN  /\ net' = [net EXCEPT !.layer = Append(@, made.layer),
                                 !._inplanes = made._inplanes]
           /\ pc' = IF i = Len(layers) THEN "init_pool" ELSE "make_layer"
    /\ UNCHANGED <<config, variant, wave, ip, x, trace, bottleneckVars>>

ModifiedResNetInitPool ==
    /\ variant = "ModifiedResNet" /\ pc = "init_pool"
    /\ net' = ModifiedResNet_init_pool(config, net)
    /\ pc' = "forward"
    /\ UNCHANGED <<config, variant, wave, ip, x, trace, bottleneckVars>>

Construct(v, built) ==
    /\ variant = v /\ pc = "new"
    /\ net' = built
    /\ pc' = "forward"
    /\ UNCHANGED <<config, variant, wave, ip, x, trace, bottleneckVars>>

AudioCNNInit == Construct("AudioCNN", AudioCNN_init(config))
AudioEfficientNetInit == Construct("AudioEfficientNet", AudioEfficientNet_init(config))
AudioTransformerInit == Construct("AudioTransformer", AudioTransformer_init(config))
AudioAutoEncoderInit == Construct("AudioAutoEncoder", AudioAutoEncoder_init(config))

\* one statement of forward: apply the ip-th entry of the forward list to x
ForwardStep(v, fwd) ==
    /\ variant = v /\ pc = "forward"
    /\ LET l == fwd[ip]
           r == Apply(l, x)
       IN  /\ trace' = Append(trace, l)
           /\ x' = r
           /\ IF r = ShapeError
              THEN pc' = "error" /\ ip' = ip
              ELSE /\ ip' = ip + 1
                   /\ pc' = IF ip = Len(fwd) THEN "done" ELSE "forward"
    /\ UNCHANGED <<config, variant, wave, net, bottleneckVars>>

ModifiedResNetForward == ForwardStep("ModifiedResNet", ModifiedResNet_forward(net))
AudioCNNForward == ForwardStep("AudioCNN", AudioCNN_forward(net))
AudioEfficientNetForward == ForwardStep("AudioEfficientNet", AudioEfficientNet_forward(net))
AudioTransformerForward == ForwardStep("AudioTransformer", AudioTransformer_forward(net))
AudioAutoEncoderForward == ForwardStep("AudioAutoEncoder", AudioAutoEncoder_forward(net))

Next ==
    \/ ModifiedResNetInitStem
    \/ ModifiedResNetMakeLayer
    \/ ModifiedResNetInitPool
    \/ AudioCNNInit
    \/ AudioEfficientNetInit
    \/ AudioTransformerInit
    \/ AudioAutoEncoderInit
    \/ ModifiedResNetForward
    \/ AudioCNNForward
    \/ AudioEfficientNetForward
    \/ AudioTransformerForward
    \/ AudioAutoEncoderForward

Spec == Init /\ [][Next]_vars

(***************************************************************************)
(* A Bottleneck on its own: construction, then forward statement by        *)
(* statement                                                               *)
(***************************************************************************)
BottleneckArgs ==
    [inplanes : 1..(MaxPlanes * expansion), planes : 1..MaxPlanes, stride : 1..MaxStride]

BottleneckInputs(inplanes) ==
    {<<b, inplanes, h, w>> : b \in 1..MaxBatch, h \in 1..MaxSide, w \in 1..MaxSide}

InitBottleneck ==
    /\ bpc = "new"
    /\ bargs \in BottleneckArgs
    /\ bx \in BottleneckInputs(bargs.inplanes)
    /\ block = <<>>
    /\ out = <<>>
    /\ identity = <<>>
    /\ config = <<>>
    /\ variant = "Bottleneck"
    /\ wave = <<>>
    /\ pc = "off"
    /\ net = <<>>
    /\ ip = 1
    /\ x = <<>>
    /\ trace = <<>>

BottleneckInit ==
    /\ bpc = "new"
    /\ block' = Bottleneck(bargs.inplanes, bargs.planes, bargs.stride)
    /\ bpc' = "main"
    /\ UNCHANGED <<bargs, bx, out, identity, encoderVars>>

\* identity = x; out = bn3(conv3(avgpool(relu(bn2(conv2(relu(bn1(conv1(x)))))))))
BottleneckForwardMain ==
    /\ bpc = "main"
    /\ identity' = bx
    /\ out' = Sequential(Bottleneck_main(block), bx)
    /\ bpc' = IF out' = ShapeError THEN "error" ELSE "identity"
    /\ UNCHANGED <<bargs, bx, block, encoderVars>>

\* if self.downsample is not None: identity = self.downsample(x)
BottleneckForwardIdentity ==
    /\ bpc = "identity"
    /\ identity' = IF block.downsample # <<>>
                   THEN Sequential(block.downsample, bx) ELSE identity
    /\ bpc' = IF identity' = ShapeError THEN "error" ELSE "add"
    /\ UNCHANGED <<bargs, bx, block, out, encoderVars>>

\* out += identity; out = relu(out); return out
BottleneckForwardAdd ==
    /\ bpc = "add"
    /\ out' = Bottleneck_add(out, identity)
    /\ bpc' = IF out' = ShapeError THEN "error" ELSE "done"
    /\ UNCHANGED <<bargs, bx, block, identity, encoderVars>>

NextBottleneck ==
    \/ BottleneckInit
    \/ BottleneckForwardMain
    \/ BottleneckForwardIdentity
    \/ BottleneckForwardAdd

SpecBottleneck == InitBottleneck /\ [][NextBottleneck]_vars

(***************************************************************************)
(* Properties                                                              *)
(***************************************************************************)
B == wave[1]
L == wave[2]
Frames == L \div (config.n_fft \div 2) + 1
FrontEndAccepts == L > config.n_fft \div 2
Constructed == pc \in {"forward", "done", "error"}

\* C1: for every encoder, config and batch the front end accepts, forward ends
\* without a shape error and returns a 2-D tensor whose first axis is the batch.
C1_FixedSizeEmbedding ==
    FrontEndAccepts =>
        /\ pc # "error"
        /\ pc = "done" => Len(x) = 2 /\ x[1] = B

\* C2: whatever the encoder, the last axis of forward's result is
\* config.hidden_size.
C2_Interchangeable ==
    pc = "done" => x[Len(x)] = config.hidden_size

\* the front end every encoder is said to share
FrontEnd(cfg) ==
    <<MelSpectrogram(cfg.sample_rate, cfg.n_fft, cfg.f_min, cfg.f_max,
                     cfg.n_mels, 2, TRUE),
      AmplitudeToDB(100),
      Unsqueeze(1)>>

Learned(l) ==
    l.type \in {"Conv2d", "BatchNorm2d", "Linear", "Sequential", "Bottleneck",
                "AttentionPool2d", "EfficientNet", "TransformerEncoder",
                "PositionalEncoding", "reparameterize"}

\* C3: every encoder's forward applies, in this order and before any learned
\* layer, the mel spectrogram built from the config with power 2 and
\* normalized, amplitude-to-dB with top_db 100 and unsqueeze(1); the tensor it
\* then holds has shape (B, 1, n_mels, T).
C3_CommonFrontEnd ==
    Constructed =>
        /\ \A i \in 1..Len(trace) :
              IF i <= 3 THEN trace[i] = FrontEnd(config)[i] ELSE TRUE
        /\ \A i \in 1..Len(trace) : Learned(trace[i]) => i > 3
        /\ (Len(trace) = 3 /\ pc # "error") => x = <<B, 1, config.n_mels, Frames>>
        /\ (pc = "done" \/ (pc = "error" /\ FrontEndAccepts)) => Len(trace) > 3

C3_Witness ==
    /\ variant = "AudioAutoEncoder" /\ pc = "forward" /\ Len(trace) = 3
    /\ x = <<B, 1, config.n_mels, Frames>>

\* all Bottleneck blocks constructed so far, in construction order
Blocks(i) == net.layer[i].layers
RECURSIVE Concat(_)
Concat(ss) == IF ss = <<>> THEN <<>> ELSE Head(ss) \o Concat(Tail(ss))
AllBlocks == Concat([i \in 1..Len(net.layer) |-> Blocks(i)])

\* the convolutions of a ModifiedResNet built so far
StemConvs == {net.conv1, net.conv2, net.conv3}
BlockConvs(b) ==
    {b.conv1, b.conv2, b.conv3}
    \cup {b.downsample[k] : k \in {j \in 1..Len(b.downsample) :
                                       b.downsample[j].type = "Conv2d"}}
ResNetConvs ==
    StemConvs \cup UNION {BlockConvs(AllBlocks[k]) : k \in 1..Len(AllBlocks)}

\* C4: every convolution of a ModifiedResNet (stem, Bottleneck main paths and
\* downsample paths) has stride 1; spatial reduction is done by AvgPool2d only.
C4_AntiAliased ==
    (variant = "ModifiedResNet" /\ pc # "new") =>
        \A c \in ResNetConvs : c.stride = 1

\* C5: ModifiedResNet.forward returns a tensor of shape (B, output_dim), whatever
\* config.pooling, the width and the batch size.
C5_FinalPooling ==
    (variant = "ModifiedResNet" /\ pc = "done") => x = <<B, net.output_dim>>

\* C6: each Bottleneck is built with inplanes equal to the channels the block
\* before it outputs (the stem's width for the first); after each _make_layer
\* call _inplanes = planes * 4; the layers have 3, 4, 6, 3 blocks of planes
\* w, 2w, 4w, 8w; the first block of a layer has the downsample branch and the
\* layer's stride (1, 2, 2, 2), the later ones stride 1 and no downsample; the
\* last block outputs width * 32 channels, the embed_dim of AttentionPool2d.
C6_ChannelChaining ==
    (variant = "ModifiedResNet" /\ pc # "new") =>
        LET width == config.conv_out_channels
            made == Len(net.layer)
        IN  /\ \A k \in 1..Len(AllBlocks) :
                  AllBlocks[k].conv1.in_channels =
                      IF k = 1 THEN width ELSE AllBlocks[k - 1].bn3.num_features
            /\ net._inplanes = IF made = 0 THEN width
                               ELSE width * (2 ^ (made - 1)) * 4
            /\ \A i \in 1..made :
                  /\ Len(Blocks(i)) = <<3, 4, 6, 3>>[i]
                  /\ \A j \in 1..Len(Blocks(i)) :
                        LET b == Blocks(i)[j]
                        IN  /\ b.conv1.out_channels = width * <<1, 2, 4, 8>>[i]
                            /\ b.conv3.out_channels = b.conv1.out_channels * 4
                            /\ b.stride = IF j = 1 THEN <<1, 2, 2, 2>>[i] ELSE 1
                            /\ (b.downsample # <<>>) <=> (j = 1)
            /\ (pc = "make_layer") <=> (made < 4)
            /\ made = 4 =>
                  /\ Len(AllBlocks) = 16
                  /\ AllBlocks[16].bn3.num_features = width * 32
            /\ (Constructed /\ net.pooling = "attention") =>
                  /\ net.attnpool.q_proj.in_features = width * 32
                  /\ net.attnpool.positional_embedding[2] = net._inplanes

C6_Witness ==
    /\ variant = "ModifiedResNet" /\ pc = "forward" /\ ip = 1
    /\ net.pooling = "attention" /\ Len(AllBlocks) = 16
    /\ net._inplanes = config.conv_out_channels * 32

\* C7: a Bottleneck has the downsample branch exactly when stride > 1 or
\* inplanes # planes * 4; on an input (B, inplanes, H, W) with H, W >= stride
\* forward does not fail, and the main path and the identity path both have
\* shape (B, planes * 4, H // stride, W // stride) when they are added.
C7_Expected ==
    <<bx[1], bargs.planes * 4, bx[3] \div bargs.stride, bx[4] \div bargs.stride>>

C7_ResidualAddShapes ==
    /\ bpc \notin {"off", "new"} =>
          ((block.downsample # <<>>) <=>
              (bargs.stride > 1 \/ bargs.inplanes # bargs.planes * 4))
    /\ (bx[3] >= bargs.stride /\ bx[4] >= bargs.stride) =>
          /\ bpc # "error"
          /\ bpc \in {"identity", "add", "done"} => out = C7_Expected
          /\ bpc \in {"add", "done"} => identity = C7_Expected

C7_Witness ==
    /\ bpc = "done" /\ bargs.stride = 2 /\ bx[3] = 3 /\ bx[4] = 4
    /\ out = <<bx[1], bargs.planes * 4, 1, 2>> /\ identity = out

====
